---------------------------- MODULE Spec2Model ----------------------------
(***************************************************************************)
(* LiCSAlert time-course tracking (src/lib/LiCSAlert_functions.py).        *)
(*                                                                         *)
(* The model follows the trend state of the source: a list of records,     *)
(* one per channel, created by tcs_baseline and extended by                *)
(* tcs_monitoring.                                                         *)
(*                                                                         *)
(* Specifications.  Spec: calls of tcs_baseline and tcs_monitoring with a  *)
(* time vector of the right length; SpecAnyLen: the same calls with a time *)
(* vector of any length; SpecRecords: tcs_monitoring on a list of records  *)
(* of two tcs_baseline calls; SpecAlert: one invocation of LiCSAlert,      *)
(* statement by statement, on interferograms made from known strengths     *)
(* and noise; SpecAlertAgain: LiCSAlert invoked again on the arrays the    *)
(* caller still holds; SpecDetect: detect_new_ifgs on a folder whose       *)
(* content changes.                                                        *)
(*                                                                         *)
(* Numbers.  A time-course value is a floating-point number; additions     *)
(* and subtractions of time-course values are rounded to a mantissa of     *)
(* MantBits bits (round to nearest, ties to even), as IEEE arithmetic      *)
(* rounds them to 53 bits.  The statistics computed from a time course     *)
(* (polyfit, mean, std, the line values) are carried as exact rationals    *)
(* <<n, d>> in lowest terms with d > 0; <<0, 0>> is NaN and <<1, 0>> is    *)
(* +inf.  A value that the code obtains through a square root (sigma,      *)
(* and the distances, which are divided by it) is carried as the record    *)
(* [sq |-> q], standing for the non-negative root of q.                    *)
(* Pixel values, and the linear algebra on them, are exact rationals; an   *)
(* invocation is followed as long as the strengths and RMS residuals it    *)
(* computes are values of the floating-point format.                       *)
(*                                                                         *)
(* Arrays are sequences (index 1 is numpy's index 0); a rank-2 array is    *)
(* a sequence of rows.                                                     *)
(***************************************************************************)
EXTENDS Integers, Sequences, FiniteSets, TLC

(***************************************************************************)
(* Bounds of the model.                                                    *)
(***************************************************************************)
\* the largest number of time steps (baseline + monitoring) of a state
MaxTimes == 4
\* the largest window length t_recalculate
MaxRecalc == 4
\* the number of mantissa bits of the floating-point format
MantBits == 3
\* the largest number of invocations of LiCSAlert on the same arrays
MaxInvocations == 2
\* the largest number of folder names
MaxFolders == 4

(***************************************************************************)
(* Integer helpers.                                                        *)
(***************************************************************************)
Abs(x) == IF x < 0 THEN -x ELSE x

Max(a, b) == IF a < b THEN b ELSE a

Min(a, b) == IF a < b THEN a ELSE b

RECURSIVE Gcd(_, _)
Gcd(a, b) == IF b = 0 THEN a ELSE Gcd(b, a % b)

RECURSIVE Pow2(_)
Pow2(e) == IF e = 0 THEN 1 ELSE 2 * Pow2(e - 1)

(***************************************************************************)
(* Floating point: rounding of an integer-valued result to MantBits bits. *)
(***************************************************************************)
RECURSIVE Exponent(_, _)
Exponent(a, e) == IF a \div Pow2(e) < Pow2(MantBits) THEN e ELSE Exponent(a, e + 1)

Round(x) ==
    LET a == Abs(x)
        p == Pow2(Exponent(a, 0))
        q == a \div p
        r == a % p
        up == (2 * r > p) \/ (2 * r = p /\ q % 2 = 1)
        mag == (IF up THEN q + 1 ELSE q) * p
    IN  IF x < 0 THEN -mag ELSE mag

\* float + float and float - float
FAdd(a, b) == Round(a + b)

FSub(a, b) == Round(a - b)

(***************************************************************************)
(* Rationals with NaN and +inf.                                            *)
(***************************************************************************)
NaN == <<0, 0>>

Inf == <<1, 0>>

IsNaN(q) == q = NaN

IsFinite(q) == q[2] # 0

Rat(n, d) ==
    IF d = 0 THEN (IF n = 0 THEN NaN ELSE Inf)
    ELSE LET g == Gcd(Abs(n), Abs(d))
             s == IF d < 0 THEN -1 ELSE 1
         IN  <<(s * n) \div g, (s * d) \div g>>

FromInt(x) == <<x, 1>>

RAdd(a, b) == IF ~IsFinite(a) \/ ~IsFinite(b) THEN NaN
              ELSE Rat(a[1] * b[2] + b[1] * a[2], a[2] * b[2])

RSub(a, b) == IF ~IsFinite(a) \/ ~IsFinite(b) THEN NaN
              ELSE Rat(a[1] * b[2] - b[1] * a[2], a[2] * b[2])

RMul(a, b) == IF ~IsFinite(a) \/ ~IsFinite(b) THEN NaN
              ELSE Rat(a[1] * b[1], a[2] * b[2])

\* numpy division: x/0 is inf, 0/0 is nan, no exception
RDiv(a, b) == IF ~IsFinite(a) \/ ~IsFinite(b) THEN NaN
              ELSE Rat(a[1] * b[2], a[2] * b[1])

RECURSIVE RSum(_)
RSum(s) == IF s = <<>> THEN FromInt(0) ELSE RAdd(s[1], RSum(Tail(s)))

\* np.mean: the mean of an empty array is nan
RMean(s) == RDiv(RSum(s), FromInt(Len(s)))

(***************************************************************************)
(* Array helpers.                                                          *)
(***************************************************************************)
\* the array a with every entry computed
Array(a) == SubSeq(a, 1, Len(a))

\* a[start:stop] of an array of length Len(a), with Python's treatment of
\* negative and out-of-range bounds; start and stop are 0-based
SliceLo(n, start) == IF start < 0 THEN Max(0, start + n) ELSE Min(start, n)

SliceLen(n, start, stop) == Max(0, SliceLo(n, stop) - SliceLo(n, start))

Slice(a, start, stop) ==
    Array([i \in 1..SliceLen(Len(a), start, stop) |-> a[SliceLo(Len(a), start) + i]])

\* column c of a rank-2 array
Column(arr, c) == Array([i \in 1..Len(arr) |-> arr[i][c]])

\* an array of floating-point or integer values as exact rationals
Rats(s) == Array([i \in 1..Len(s) |-> FromInt(s[i])])


RECURSIVE Cumsum(_, _)
\* np.cumsum along time of one column, in floating point; acc is the
\* running sum so far
Cumsum(s, acc) ==
    IF s = <<>> THEN <<>>
    ELSE <<FAdd(acc, s[1])>> \o Cumsum(Tail(s), FAdd(acc, s[1]))

\* np.cumsum(m, axis=0) of a rank-2 array with k columns
CumsumRows(m, k) ==
    Array([i \in 1..Len(m) |-> Array([c \in 1..k |-> Cumsum(Column(m, c), 0)[i]])])

(***************************************************************************)
(* tcs_baseline                                                            *)
(***************************************************************************)
\* np.polyfit(x, y, 1) for at least two distinct x: the least-squares
\* gradient and intercept
PolyfitGradient(x, y) ==
    LET n == Len(x)
        sx == RSum(Rats(x))
        sy == RSum(Rats(y))
        sxy == RSum([i \in 1..n |-> FromInt(x[i] * y[i])])
        sxx == RSum([i \in 1..n |-> FromInt(x[i] * x[i])])
    IN  RDiv(RSub(RMul(FromInt(n), sxy), RMul(sx, sy)),
             RSub(RMul(FromInt(n), sxx), RMul(sx, sx)))

PolyfitIntercept(x, y) ==
    LET sx == RSum(Rats(x))
        sy == RSum(Rats(y))
    IN  RDiv(RSub(sy, RMul(PolyfitGradient(x, y), sx)), FromInt(Len(x)))

\* np.polyval((gradient, intercept), time_values)
Polyval(gradient, intercept, x) ==
    Array([i \in 1..Len(x) |-> RAdd(RMul(gradient, FromInt(x[i])), intercept)])

\* a window one step too long
BaselineStartWide(time_step, t_recalculate) ==
    IF time_step - t_recalculate < 0 THEN 0 ELSE time_step - t_recalculate

\* first row (0-based) of the window of line time_step in the baseline
BaselineStart(time_step, t_recalculate) ==
    IF time_step - (t_recalculate - 1) < 0 THEN 0
    ELSE time_step - (t_recalculate - 1)

\* every window drawn with an intercept of its own
BaselineLinesPerWindow(line_yvals, t_recalculate) ==
    LET n == Len(line_yvals)
        Lo(c) == SliceLo(n, BaselineStart(c - 1, t_recalculate))
        Hi(c) == Lo(c) + SliceLen(n, BaselineStart(c - 1, t_recalculate), c)
    IN  Array([r \in 1..n |-> Array([c \in 1..n |->
            IF Lo(c) < r /\ r <= Hi(c)
            THEN RAdd(line_yvals[r], FromInt(c - 1)) ELSE NaN])])

\* the n x n matrix of lines: NaN except for the slice
\* lines[start_time:time_step+1, time_step] of every column time_step
BaselineLines(line_yvals, t_recalculate) ==
    LET n == Len(line_yvals)
        Lo(c) == SliceLo(n, BaselineStart(c - 1, t_recalculate))
        Hi(c) == Lo(c) + SliceLen(n, BaselineStart(c - 1, t_recalculate), c)
    IN  Array([r \in 1..n |-> Array([c \in 1..n |->
            IF Lo(c) < r /\ r <= Hi(c) THEN line_yvals[r] ELSE NaN])])

\* the sample standard deviation, with n - 1 degrees of freedom
StdSample(d) ==
    LET mu == RMean(d)
    IN  [sq |-> RDiv(RSum([i \in 1..Len(d) |->
                             RMul(RSub(d[i], mu), RSub(d[i], mu))]),
                     FromInt(Len(d) - 1))]

\* np.std(d): the root of the mean squared deviation from the mean
Std(d) ==
    LET mu == RMean(d)
    IN  [sq |-> RMean([i \in 1..Len(d) |->
                         RMul(RSub(d[i], mu), RSub(d[i], mu))])]

\* np.abs(d / sigma)
AbsOver(d, sigma) == [sq |-> RDiv(RMul(d, d), sigma.sq)]

\* the record of one time course
BaselineDict(cumulative_tc, time_values, t_recalculate) ==
    LET gradient == PolyfitGradient(time_values, cumulative_tc)
        y_intercept == PolyfitIntercept(time_values, cumulative_tc)
        line_yvals == Polyval(gradient, y_intercept, time_values)
        line_point_distances ==
            Array([i \in 1..Len(cumulative_tc) |->
                RSub(FromInt(cumulative_tc[i]), line_yvals[i])])
        sigma == Std(line_point_distances)
    IN  [cumulative_tc |-> cumulative_tc,
         gradient |-> gradient,
         lines |-> BaselineLines(line_yvals, t_recalculate),
         sigma |-> sigma,
         distances |-> Array([i \in 1..Len(cumulative_tc) |->
                           AbsOver(line_point_distances[i], sigma)]),
         t_recalculate |-> t_recalculate]

\* tcs_baseline(tcs_c, time_values, t_recalculate) for n_tcs columns;
\* np.polyfit raises TypeError when x and y differ in length
tcs_baseline(tcs_c, n_tcs, time_values, t_recalculate) ==
    IF Len(time_values) # Len(tcs_c)
    THEN [err |-> "TypeError", out |-> <<>>]
    ELSE [err |-> "none",
          out |-> Array([n_tc \in 1..n_tcs |->
                      BaselineDict(Column(tcs_c, n_tc), time_values,
                                   t_recalculate)])]

(***************************************************************************)
(* tcs_monitoring                                                          *)
(***************************************************************************)
\* a count clamped at zero, which lets a short series through
NTimesMonitorClamped(residual, n_times_tc, n_times_baseline) ==
    IF residual THEN Max(0, n_times_tc - n_times_baseline) ELSE n_times_tc

\* the number of monitoring steps of the call
NTimesMonitor(residual, n_times_tc, n_times_baseline) ==
    IF residual THEN n_times_tc - n_times_baseline ELSE n_times_tc

\* the new values restart from zero
AddLastNoOffset(tcs_c, source_n, cumulative_tc) == tcs_c

\* tcs_c[:, source_n] += source_tc["cumulative_tc"][-1], in place
AddLast(tcs_c, source_n, cumulative_tc) ==
    Array([i \in 1..Len(tcs_c) |->
        [tcs_c[i] EXCEPT ![source_n] =
            FAdd(tcs_c[i][source_n], cumulative_tc[Len(cumulative_tc)])]])

\* step 1 of the loop body: tcs_c after it (unchanged in residual mode)
UpdatedTcsC(tcs_c, source_n, cumulative_tc, residual) ==
    IF residual THEN tcs_c ELSE AddLast(tcs_c, source_n, cumulative_tc)

\* the residual series appended like a per-source one
UpdatedCumulativeAppend(tcs_c, source_n, cumulative_tc, residual) ==
    cumulative_tc \o
        Column(UpdatedTcsC(tcs_c, source_n, cumulative_tc, residual), source_n)

\* step 1 of the loop body: the new cumulative time course
UpdatedCumulative(tcs_c, source_n, cumulative_tc, residual) ==
    IF residual THEN Column(tcs_c, source_n)
    ELSE cumulative_tc \o Column(AddLast(tcs_c, source_n, cumulative_tc), source_n)

\* padded by one step more than there are new steps
PadLinesOneMore(lines, n) ==
    [r \in 1..(Len(lines) + n + 1) |-> [c \in 1..(Len(lines) + n + 1) |->
        IF r <= Len(lines) /\ c <= Len(lines) THEN lines[r][c] ELSE NaN]]

\* a fresh matrix of NaN in place of the padded one
PadLinesFresh(lines, n) ==
    [r \in 1..(Len(lines) + n) |-> [c \in 1..(Len(lines) + n) |-> NaN]]

\* np.pad(lines, [(0, n), (0, n)], constant_values = nan) for n >= 0
PadLines(lines, n) ==
    LET rows == Len(lines)
        cols == IF rows = 0 THEN 0 ELSE Len(lines[1])
    IN  Array([r \in 1..(rows + n) |-> Array([c \in 1..(cols + n) |->
            IF r <= rows /\ c <= cols THEN lines[r][c] ELSE NaN])])

\* np.pad(distances, [(0, n), (0, 0)], constant_values = 0) for n >= 0
PadDistances(distances, n) ==
    Array([i \in 1..(Len(distances) + n) |->
        IF i <= Len(distances) THEN distances[i] ELSE [sq |-> FromInt(0)]])

\* the mean of the times taken over a window one step later than the
\* window of the values
LineYInterceptShifted(source_tc, time_values, n_ifg, t_recalculate) ==
    RSub(RMean(Rats(Slice(source_tc.cumulative_tc, n_ifg - t_recalculate, n_ifg))),
         RMul(source_tc.gradient,
              RMean(Rats(Slice(time_values, n_ifg - t_recalculate + 1, n_ifg + 1)))))

\* the y-intercept of the line of monitoring step n_ifg
LineYIntercept(source_tc, time_values, n_ifg, t_recalculate) ==
    RSub(RMean(Rats(Slice(source_tc.cumulative_tc, n_ifg - t_recalculate, n_ifg))),
         RMul(source_tc.gradient,
              RMean(Rats(Slice(time_values, n_ifg - t_recalculate, n_ifg)))))

\* the predicted y values of the line of monitoring step n_ifg
LineYvals(source_tc, time_values, n_ifg, t_recalculate) ==
    LET ts == Slice(time_values, n_ifg - t_recalculate, n_ifg + 1)
        c == LineYIntercept(source_tc, time_values, n_ifg, t_recalculate)
    IN  Array([i \in 1..Len(ts) |-> RAdd(RMul(FromInt(ts[i]), source_tc.gradient), c)])

\* the line written over the t_recalculate rows ending at n_ifg only
AssignLineNarrow(lines, line_yvals, n_ifg, t_recalculate) ==
    [r \in 1..Len(lines) |-> [c \in 1..Len(lines[r]) |->
        IF /\ c = n_ifg + 1
           /\ n_ifg - t_recalculate + 1 < r /\ r <= n_ifg + 1
           /\ Len(line_yvals) - (n_ifg + 1 - r) >= 1
        THEN line_yvals[Len(line_yvals) - (n_ifg + 1 - r)]
        ELSE lines[r][c]]]

\* lines[n_ifg - t_recalculate : n_ifg + 1, n_ifg] = line_yvals, for
\* line_yvals of the length of the row slice or of length 1 (broadcast)
AssignLine(lines, line_yvals, n_ifg, t_recalculate) ==
    LET lo == SliceLo(Len(lines), n_ifg - t_recalculate)
        k == SliceLen(Len(lines), n_ifg - t_recalculate, n_ifg + 1)
    IN  Array([r \in 1..Len(lines) |-> Array([c \in 1..Len(lines[r]) |->
            IF c = n_ifg + 1 /\ lo < r /\ r <= lo + k
            THEN (IF Len(line_yvals) = 1 THEN line_yvals[1]
                  ELSE line_yvals[r - lo])
            ELSE lines[r][c]])])

\* the exception raised by the body of the loop over n_ifg, if any
StepError(source_tc, time_values, n_ifg, t_recalculate) ==
    LET k1 == SliceLen(Len(time_values), n_ifg - t_recalculate, n_ifg + 1)
        k2 == SliceLen(Len(source_tc.lines), n_ifg - t_recalculate, n_ifg + 1)
    IN  IF n_ifg >= Len(source_tc.lines[1]) THEN "IndexError"
        ELSE IF k1 # k2 /\ k1 # 1 THEN "ValueError"
        ELSE IF k1 = 0 THEN "IndexError"
        ELSE IF n_ifg >= Len(source_tc.cumulative_tc) THEN "IndexError"
        ELSE "none"

\* the gradient fitted again over all the steps so far
MonitorStepRefit(source_tc, time_values, n_ifg, t_recalculate) ==
    LET line_yvals == LineYvals(source_tc, time_values, n_ifg, t_recalculate)
    IN  [source_tc EXCEPT
            !.gradient = PolyfitGradient(Slice(time_values, 0, n_ifg + 1),
                             Slice(source_tc.cumulative_tc, 0, n_ifg + 1)),
            !.lines = AssignLine(source_tc.lines, line_yvals, n_ifg, t_recalculate),
            !.distances[n_ifg + 1] =
                AbsOver(RSub(FromInt(source_tc.cumulative_tc[n_ifg + 1]),
                             line_yvals[Len(line_yvals)]),
                        source_tc.sigma)]

\* the body of the loop over n_ifg
MonitorStep(source_tc, time_values, n_ifg, t_recalculate) ==
    LET line_yvals == LineYvals(source_tc, time_values, n_ifg, t_recalculate)
    IN  [source_tc EXCEPT
            !.lines = AssignLine(source_tc.lines, line_yvals, n_ifg, t_recalculate),
            !.distances[n_ifg + 1] =
                AbsOver(RSub(FromInt(source_tc.cumulative_tc[n_ifg + 1]),
                             line_yvals[Len(line_yvals)]),
                        source_tc.sigma)]

RECURSIVE MonitorLoop(_, _, _, _, _)
\* for n_ifg in np.arange(n_ifg, n_times_total): the record after the loop,
\* or the exception that ended it
MonitorLoop(source_tc, time_values, n_ifg, n_times_total, t_recalculate) ==
    IF n_ifg >= n_times_total THEN [err |-> "none", tc |-> source_tc]
    ELSE IF StepError(source_tc, time_values, n_ifg, t_recalculate) # "none"
    THEN [err |-> StepError(source_tc, time_values, n_ifg, t_recalculate),
          tc |-> source_tc]
    ELSE MonitorLoop(MonitorStep(source_tc, time_values, n_ifg, t_recalculate),
                     time_values, n_ifg + 1, n_times_total, t_recalculate)

\* the body of the loop over the channels, for channel source_n
MonitorChannel(source_tc, tcs_c, source_n, time_values, residual, n_base, n_times_monitor, t_recalculate) ==
    IF n_times_monitor < 0
    THEN [err |-> "ValueError",
          tc |-> [source_tc EXCEPT
                    !.cumulative_tc = UpdatedCumulative(tcs_c, source_n,
                                          source_tc.cumulative_tc, residual)]]
    ELSE MonitorLoop(
            [source_tc EXCEPT
                !.cumulative_tc = UpdatedCumulative(tcs_c, source_n,
                                      source_tc.cumulative_tc, residual),
                !.lines = PadLines(source_tc.lines, n_times_monitor),
                !.distances = PadDistances(source_tc.distances, n_times_monitor)],
            time_values, n_base, n_base + n_times_monitor, t_recalculate)

\* copy.deepcopy(sources_tcs)
DeepCopy(sources_tcs) == sources_tcs

\* the records of the copy are the caller's own records
ArgAfterShared(sources_tcs, work) == work

\* the caller's list sources_tcs after the call, work being the copy as the
\* loops left it: the deep copy shares no record with the caller's list
ArgAfter(sources_tcs, work) == sources_tcs

RECURSIVE MonitorChannels(_, _, _, _, _, _, _, _)
\* for source_n, source_tc in enumerate(sources_tcs_monitor), from channel
\* source_n on: the list and the caller's tcs_c after the loop, or the
\* exception that ended it; work is the list as the loop left it
MonitorChannels(tcs_monitor, tcs_c, source_n, time_values, residual, n_base, n_times_monitor, t_recalculate) ==
    IF source_n > Len(tcs_monitor)
    THEN [err |-> "none", out |-> tcs_monitor, tcs_c |-> tcs_c,
          work |-> tcs_monitor]
    ELSE LET source_tc == tcs_monitor[source_n]
             r == MonitorChannel(source_tc, tcs_c, source_n, time_values,
                                 residual, n_base, n_times_monitor,
                                 t_recalculate)
             tcs_c2 == UpdatedTcsC(tcs_c, source_n, source_tc.cumulative_tc,
                                   residual)
         IN  IF r.err # "none"
             THEN [err |-> r.err, out |-> <<>>, tcs_c |-> tcs_c2,
                   work |-> [tcs_monitor EXCEPT ![source_n] = r.tc]]
             ELSE MonitorChannels(
                     [tcs_monitor EXCEPT ![source_n] = r.tc],
                     tcs_c2, source_n + 1, time_values, residual,
                     n_base, n_times_monitor, t_recalculate)

\* tcs_monitoring(tcs_c, sources_tcs, time_values, residual)
tcs_monitoring(tcs_c, sources_tcs, time_values, residual) ==
    LET sources_tcs_monitor == DeepCopy(sources_tcs)
        t_recalculate == sources_tcs_monitor[1].t_recalculate
        n_times_baseline == Len(sources_tcs_monitor[1].cumulative_tc)
        n_times_tc == Len(tcs_c)
        n_times_monitor == NTimesMonitor(residual, n_times_tc, n_times_baseline)
        r == MonitorChannels(sources_tcs_monitor, tcs_c, 1, time_values,
                             residual, n_times_baseline, n_times_monitor,
                             t_recalculate)
    IN  [err |-> r.err, out |-> r.out, tcs_c |-> r.tcs_c,
         arg |-> ArgAfter(sources_tcs, r.work)]

(***************************************************************************)
(* residual_for_pixels                                                     *)
(***************************************************************************)
\* the cumulative time courses copied out as they are
list_dict_to_r2_cumulative(tcs) ==
    [i \in 1..Len(tcs[1].cumulative_tc) |->
        [n_source \in 1..Len(tcs) |-> tcs[n_source].cumulative_tc[i]]]

\* list_dict_to_r2: the incremental time courses as columns, each the first
\* differences of the cumulative time course after a leading 0
list_dict_to_r2(tcs) ==
    Array([i \in 1..Len(tcs[1].cumulative_tc) |->
        Array([n_source \in 1..Len(tcs) |->
            FSub(tcs[n_source].cumulative_tc[i],
                 IF i = 1 THEN 0 ELSE tcs[n_source].cumulative_tc[i - 1])])])

\* the dot product of two rows of pixels
Dot(u, v) == RSum([p \in 1..Len(u) |-> RMul(u[p], v[p])])

RECURSIVE Flatten(_)
\* all the entries of a rank-2 array, row after row
Flatten(a) == IF a = <<>> THEN <<>> ELSE a[1] \o Flatten(Tail(a))

\* the largest integer whose square is at most n
ISqrt(n) == CHOOSE r \in 0..n : r * r <= n /\ n < (r + 1) * (r + 1)

\* the rational q is a value of the floating-point format
Carried(q) == q[2] = 1 /\ Round(q[1]) = q[1]

\* np.sqrt(q) is a value of the floating-point format
SqrtCarried(q) ==
    /\ q[2] = 1
    /\ q[1] >= 0
    /\ ISqrt(q[1]) * ISqrt(q[1]) = q[1]
    /\ Round(ISqrt(q[1])) = ISqrt(q[1])

\* data_model_residual = ifgs - (tcs @ sources)
DataModelResidual(sources, tcs, ifgs) ==
    Array([t \in 1..Len(ifgs) |-> Array([p \in 1..Len(ifgs[t]) |->
        RSub(ifgs[t][p],
             RSum([j \in 1..Len(sources) |->
                     RMul(FromInt(tcs[t][j]), sources[j][p])]))])])

\* np.cumsum(a, axis = 0) of an array of pixels
CumsumPixels(a) ==
    Array([t \in 1..Len(a) |-> Array([p \in 1..Len(a[t]) |->
        RSum([u \in 1..t |-> a[u][p]])])])

\* np.sum(row**2)/n_pixs, of which the RMS is the root
MeanSquare(row, n_pixs) == RDiv(Dot(row, row), FromInt(n_pixs))

\* the two outputs in each other's place
RmsArraysSwapped(ts, cs) ==
    [err |-> "none",
     carried |-> \A t \in 1..Len(ts) :
                     SqrtCarried(ts[t]) /\ SqrtCarried(cs[t]),
     residual_ts |-> [t \in 1..Len(cs) |-> <<ISqrt(cs[t][1])>>],
     residual_cs |-> [t \in 1..Len(ts) |-> <<ISqrt(ts[t][1])>>]]

\* the two arrays of RMS values, ts and cs holding their squares; carried
\* tells whether every RMS is a value of the floating-point format
RmsArrays(ts, cs) ==
    [err |-> "none",
     carried |-> \A t \in 1..Len(ts) :
                     SqrtCarried(ts[t]) /\ SqrtCarried(cs[t]),
     residual_ts |-> [t \in 1..Len(ts) |-> <<ISqrt(ts[t][1])>>],
     residual_cs |-> [t \in 1..Len(cs) |-> <<ISqrt(cs[t][1])>>]]

\* the loop over row_n: the RMS of every row of the two residual arrays
ResidualRms(data_model_residual, data_model_residual_cs, n_pixs) ==
    RmsArrays(Array([t \in 1..Len(data_model_residual) |->
                        MeanSquare(data_model_residual[t], n_pixs)]),
              Array([t \in 1..Len(data_model_residual) |->
                        MeanSquare(data_model_residual_cs[t], n_pixs)]))

\* the residual, its cumulative sum and their RMS
ResidualOf(data_model_residual, n_pixs) ==
    ResidualRms(data_model_residual, CumsumPixels(data_model_residual),
                n_pixs)

\* residual_for_pixels(sources, sources_tcs, ifgs): residual_ts and
\* residual_cs as n_ifgs x 1 arrays; the subtraction raises ValueError when
\* ifgs and the time courses differ in their number of rows
residual_for_pixels(sources, sources_tcs, ifgs) ==
    IF Len(ifgs) # Len(sources_tcs[1].cumulative_tc)
    THEN [err |-> "ValueError", carried |-> FALSE,
          residual_ts |-> <<>>, residual_cs |-> <<>>]
    ELSE ResidualOf(DataModelResidual(sources, list_dict_to_r2(sources_tcs),
                                      ifgs),
                    Len(sources[1]))

(***************************************************************************)
(* bss_components_inversion.  Pixel values, and the linear algebra on      *)
(* them, are exact rationals; the model carries matrices g.T @ g of one    *)
(* or two sources.                                                         *)
(***************************************************************************)
\* interferograms -= np.mean(interferograms): the array after the statement
MeanCentre(interferograms) ==
    LET mu == RMean(Flatten(interferograms))
    IN  Array([t \in 1..Len(interferograms) |->
            Array([p \in 1..Len(interferograms[t]) |->
                RSub(interferograms[t][p], mu)])])

\* g.T @ g, the sources being the rows of g.T
GtG(sources) ==
    Array([i \in 1..Len(sources) |-> Array([j \in 1..Len(sources) |->
        Dot(sources[i], sources[j])])])

\* the determinant of a 1 x 1 or 2 x 2 matrix
Det(a) ==
    IF Len(a) = 1 THEN a[1][1]
    ELSE RSub(RMul(a[1][1], a[2][2]), RMul(a[1][2], a[2][1]))

\* the adjugate of a 1 x 1 or 2 x 2 matrix
Adjugate(a) ==
    IF Len(a) = 1 THEN << <<FromInt(1)>> >>
    ELSE << <<a[2][2], RSub(FromInt(0), a[1][2])>>,
            <<RSub(FromInt(0), a[2][1]), a[1][1]>> >>

\* an inverse that is not divided by the determinant
LinalgInvAdjugate(a) ==
    IF Det(a) = FromInt(0) THEN [err |-> "LinAlgError", inv |-> <<>>]
    ELSE [err |-> "none", inv |-> Adjugate(a)]

\* an inverse that answers a singular matrix with zeros
LinalgInvNoCheck(a) ==
    [err |-> "none",
     inv |-> [i \in 1..Len(a) |-> [j \in 1..Len(a) |->
                 IF Det(a) = FromInt(0) THEN FromInt(0)
                 ELSE RDiv(Adjugate(a)[i][j], Det(a))]]]

\* np.linalg.inv(a): LinAlgError for a singular matrix
LinalgInv(a) ==
    IF Det(a) = FromInt(0) THEN [err |-> "LinAlgError", inv |-> <<>>]
    ELSE [err |-> "none",
          inv |-> Array([i \in 1..Len(a) |-> Array([j \in 1..Len(a) |->
                      RDiv(Adjugate(a)[i][j], Det(a))])])]

\* m = inv @ g.T @ d, transposed: one row of strengths per interferogram
Strengths(inv, sources, d) ==
    Array([t \in 1..Len(d) |-> Array([j \in 1..Len(sources) |->
        RSum([i \in 1..Len(sources) |->
                RMul(inv[j][i], Dot(sources[i], d[t]))])])])

\* d_resid = d - g @ m, transposed: one row per interferogram
DResid(sources, m, d) ==
    Array([t \in 1..Len(d) |-> Array([p \in 1..Len(d[t]) |->
        RSub(d[t][p],
             RSum([j \in 1..Len(sources) |->
                     RMul(m[t][j], sources[j][p])]))])])

\* the arrays returned for the strengths m and the squared residuals of
\* the centred interferograms d.  carried tells whether every strength is a
\* value of the floating-point format; residual[t] lists the squares of the
\* values whose sum the returned residual holds at t: of
\* np.sqrt(np.sum(d_resid**2))/n_pixels of step t, and with cumulative of
\* every step up to t.
InversionOut(d, m, carried, residual, cumulative) ==
    [err |-> "none", interferograms |-> d, carried |-> carried,
     m |-> IF ~carried THEN <<>>
           ELSE IF cumulative
           THEN CumsumRows([t \in 1..Len(m) |->
                              [j \in 1..Len(m[t]) |-> m[t][j][1]]],
                           Len(m[1]))
           ELSE [t \in 1..Len(m) |-> [j \in 1..Len(m[t]) |-> m[t][j][1]]],
     residual |-> [t \in 1..Len(d) |->
                      IF cumulative THEN SubSeq(residual, 1, t)
                      ELSE <<residual[t]>>]]

\* the residual of every interferogram, from d_resid
InversionResidual(d, m, d_resid, cumulative) ==
    InversionOut(d, m,
        \A t \in 1..Len(m) : \A j \in 1..Len(m[t]) : Carried(m[t][j]),
        Array([t \in 1..Len(d) |->
                  RDiv(Dot(d_resid[t], d_resid[t]),
                       FromInt(Len(d[1]) * Len(d[1])))]),
        cumulative)

\* the inversion of the centred interferograms d
Inversion(sources, d, inv, cumulative) ==
    IF inv.err # "none"
    THEN [err |-> inv.err, interferograms |-> d, carried |-> FALSE,
          m |-> <<>>, residual |-> <<>>]
    ELSE InversionResidual(d, Strengths(inv.inv, sources, d),
             DResid(sources, Strengths(inv.inv, sources, d), d), cumulative)

\* bss_components_inversion(sources, interferograms, cumulative);
\* interferograms is the caller's array after the call, m and residual are
\* the arrays returned
bss_components_inversion(sources, interferograms, cumulative) ==
    Inversion(sources, MeanCentre(interferograms), LinalgInv(GtG(sources)),
              cumulative)

(***************************************************************************)
(* LiCSAlert                                                               *)
(***************************************************************************)
\* ifgs_monitoring = None
None == <<>>

\* ifgs_all: a copy of the baseline interferograms, or both arrays stacked
IfgsAll(ifgs_baseline, ifgs_monitoring) ==
    IF ifgs_monitoring = None THEN ifgs_baseline
    ELSE ifgs_baseline \o ifgs_monitoring

\* the interferograms of the second inversion, were they the stacked ones
MonitoringInterferogramsAll(ifgs_monitoring, ifgs_all) == ifgs_all

\* the interferograms of the second inversion
MonitoringInterferograms(ifgs_monitoring, ifgs_all) == ifgs_monitoring

\* the extended pair whatever the mode
LiCSAlertReturnMonitor(ifgs_monitoring, locals) ==
    <<locals.sources_tcs_monitor, locals.residual_tcs_monitor>>

\* the pair LiCSAlert returns
LiCSAlertReturn(ifgs_monitoring, locals) ==
    IF ifgs_monitoring = None
    THEN <<locals.sources_tcs, locals.residual_tcs>>
    ELSE <<locals.sources_tcs_monitor, locals.residual_tcs_monitor>>

(***************************************************************************)
(* detect_new_ifgs.  A folder name YYYYMMDD_YYYYMMDD is carried as a       *)
(* number, the names being numbered in their sorted order.                 *)
(***************************************************************************)
RECURSIVE Sorted(_)
\* sorted(names) of a set of names
Sorted(names) ==
    IF names = {} THEN <<>>
    ELSE LET least == CHOOSE x \in names : \A y \in names : x <= y
         IN  <<least>> \o Sorted(names \ {least})

\* the members of a list
Members(list) == {list[i] : i \in 1..Len(list)}

RECURSIVE NotIn(_, _)
\* the names of ifgs_current that are not in ifgs_preexisting, in order
NotIn(ifgs_current, ifgs_preexisting) ==
    IF ifgs_current = <<>> THEN <<>>
    ELSE (IF Head(ifgs_current) \in Members(ifgs_preexisting) THEN <<>>
          ELSE <<Head(ifgs_current)>>)
         \o NotIn(Tail(ifgs_current), ifgs_preexisting)

\* n_ifgs_current > n_ifgs_preexisting
NewIfgsFlag(ifgs_current, ifgs_preexisting) ==
    Len(ifgs_current) > Len(ifgs_preexisting)

\* detect_new_ifgs(path, initiate, ifgs_preexisting), the folders of path
\* being the set folders
detect_new_ifgs(folders, initiate, ifgs_preexisting) ==
    LET ifgs_current == Sorted(folders)
        n_ifgs_current == Len(ifgs_current)
        new_ifgs_flag == NewIfgsFlag(ifgs_current, ifgs_preexisting)
    IN  IF initiate
        THEN [ifgs_current |-> ifgs_current,
              n_ifgs_current |-> n_ifgs_current]
        ELSE [new_ifgs_flag |-> new_ifgs_flag,
              ifgs_current |-> ifgs_current,
              ifgs_new |-> IF new_ifgs_flag
                           THEN Sorted(Members(NotIn(ifgs_current,
                                                     ifgs_preexisting)))
                           ELSE <<>>]

(***************************************************************************)
(* The inputs of the model.                                                *)
(***************************************************************************)
\* the time values of the acquisitions: a regular and an irregular revisit
TimeAxes == {<<1, 2, 3, 4, 5, 6, 7>>, <<1, 2, 4, 5, 7, 8, 10>>}

\* the numbers of time courses (sources) of a state list
NTcs == {1, 2}

\* the numbers of baseline time steps: at least the two that np.polyfit
\* needs for a line, and room for a monitoring step
BaselineLens == 2..(MaxTimes - 1)

\* the rows of incremental strengths a decomposition returns, for k sources
RowChoices(k) == IF k = 1 THEN {<<-2>>, <<7>>}
                 ELSE {<<7, -2>>, <<-2, 7>>}

\* the rank-2 arrays of n rows
RowSeqs(n, k) == [1..n -> RowChoices(k)]

\* the lengths of the time vector passed with n time steps
TimeLens(n) == {n}

\* the lengths of a time vector that may be one value short or long
AnyTimeLens(n) == (n - 1)..(n + 1)

\* the full series supplied in residual mode: the baseline part is the one
\* the state holds, or a recomputed one; the rest is new
ResidualInputs(cur, n_tc, k) ==
    LET n_b == Len(cur[1].cumulative_tc)
        kept == [i \in 1..Min(n_tc, n_b) |->
                    [c \in 1..k |-> cur[c].cumulative_tc[i]]]
        Fresh(row) == [i \in 1..Min(n_tc, n_b) |-> row]
    IN  {b \o tail : b \in {kept} \cup {Fresh(row) : row \in RowChoices(k)},
                     tail \in RowSeqs(Max(0, n_tc - n_b), k)}

\* the source matrices: one source over two pixels; two independent
\* sources over three pixels; two sources of rank one; a source of zeros.
\* Every source is mean-centred.
SourceChoices ==
    { << Rats(<<1, -1>>) >>,
      << Rats(<<1, -1, 0>>), Rats(<<0, 1, -1>>) >>,
      << Rats(<<1, -1, 0>>), Rats(<<2, -2, 0>>) >>,
      << Rats(<<0, 0>>) >> }

\* what an interferogram is made from: the strength of each of k sources
\* and a noise, the same in every pixel
GenRows(k) ==
    IF k = 1
    THEN {[strengths |-> <<1>>, noise |-> 0],
          [strengths |-> <<-2>>, noise |-> 0],
          [strengths |-> <<1>>, noise |-> 6]}
    ELSE {[strengths |-> <<1, -2>>, noise |-> 0],
          [strengths |-> <<-2, 1>>, noise |-> 0],
          [strengths |-> <<1, -2>>, noise |-> 6]}

\* the interferogram made from a row of GenRows
IfgRow(sources, row) ==
    [p \in 1..Len(sources[1]) |->
        RAdd(FromInt(row.noise),
             RSum([j \in 1..Len(sources) |->
                     RMul(FromInt(row.strengths[j]), sources[j][p])]))]

\* the interferograms made from a sequence of rows of GenRows
Ifgs(sources, rows) == [t \in 1..Len(rows) |-> IfgRow(sources, rows[t])]

\* the window lengths LiCSAlert is called with
AlertRecalcs == {2}

\* the acquisition times LiCSAlert is called with
AlertTimeAxis == <<1, 2, 4, 5, 7, 8, 10>>

\* the folder names
Names == 1..MaxFolders

(***************************************************************************)
(* The state.                                                              *)
(***************************************************************************)
VARIABLES
    pc,                  \* "start", or the last call: "baseline" or
                         \* "monitoring"
    err,                 \* the exception the last call raised, or "none"
    time_axis,           \* the time values of all acquisitions
    time_values,         \* the time vector passed to the last call
    n_times_baseline,    \* the number of baseline steps tcs_baseline was given
    m,                   \* the incremental strengths the last tcs_c is the
                         \* running sum of (empty in residual mode)
    tcs_c_in,            \* the array tcs_c as passed to the last call
    tcs_c,               \* the caller's array tcs_c after the last call
    residual,            \* the residual flag of the last call
    sources_tcs_in,      \* the list sources_tcs as passed to the last
                         \* tcs_monitoring
    sources_tcs,         \* tcs_baseline's result, or the list passed to the
                         \* last tcs_monitoring, as it is after the call
    sources_tcs_monitor, \* the list the last tcs_monitoring returned
    args,                \* LiCSAlert's arguments: the caller's arrays as
                         \* they are now
    gen,                 \* the rows of GenRows the interferograms were
                         \* made from
    locals,              \* LiCSAlert's position and local variables
    trace,               \* the calls LiCSAlert made in this invocation
    returned,            \* the pairs the invocations returned so far
    folders,             \* the folders of path
    ifgs_preexisting,    \* the list passed to detect_new_ifgs
    detected             \* the mode of the last detect_new_ifgs and what
                         \* it returned

track_vars == <<pc, err, time_axis, time_values, n_times_baseline, m, tcs_c_in, tcs_c, residual,
                sources_tcs_in, sources_tcs, sources_tcs_monitor>>

alert_vars == <<args, gen, locals, trace, returned>>

detect_vars == <<folders, ifgs_preexisting, detected>>

vars == <<track_vars, alert_vars, detect_vars>>

\* the state list the caller holds: the last one returned
Latest == IF pc = "monitoring" THEN sources_tcs_monitor ELSE sources_tcs

\* LiCSAlert's local variables before it is invoked
NoLocals ==
    [pc |-> "idle", err |-> "none", n_times_baseline |-> 0,
     ifgs_all |-> <<>>, tcs_c |-> <<>>, sources_tcs |-> <<>>,
     residual_cb |-> <<>>, residual_tcs |-> <<>>,
     sources_tcs_monitor |-> <<>>, residual_c_bm |-> <<>>,
     residual_tcs_monitor |-> <<>>]

\* no invocation of LiCSAlert
AlertIdle ==
    /\ args = <<>>
    /\ gen = <<>>
    /\ locals = NoLocals
    /\ trace = <<>>
    /\ returned = <<>>

\* no call of detect_new_ifgs
DetectIdle ==
    /\ folders = {}
    /\ ifgs_preexisting = <<>>
    /\ detected = [mode |-> "none"]

\* no call of tcs_baseline yet
TrackIdle ==
    /\ pc = "start"
    /\ err = "none"
    /\ time_values = <<>>
    /\ n_times_baseline = 0
    /\ m = <<>>
    /\ tcs_c_in = <<>>
    /\ tcs_c = <<>>
    /\ residual = FALSE
    /\ sources_tcs_in = <<>>
    /\ sources_tcs = <<>>
    /\ sources_tcs_monitor = <<>>

Init == time_axis \in TimeAxes /\ TrackIdle /\ AlertIdle /\ DetectIdle

\* bss_components_inversion(..., cumulative=True) followed by tcs_baseline,
\* with a time vector of the right length (exact) or of any length
BaselineCall(exact) ==
    /\ pc = "start"
    /\ \E n_tcs \in NTcs, n \in BaselineLens, t_recalculate \in 1..MaxRecalc :
       \E inc \in RowSeqs(n, n_tcs),
          nt \in (IF exact THEN TimeLens(n) ELSE AnyTimeLens(n)) :
          \E tc \in {CumsumRows(inc, n_tcs)}, tv \in {SubSeq(time_axis, 1, nt)} :
          \E r \in {tcs_baseline(tc, n_tcs, tv, t_recalculate)} :
              /\ pc' = "baseline"
              /\ err' = r.err
              /\ time_values' = tv
              /\ n_times_baseline' = n
              /\ m' = inc
              /\ tcs_c_in' = tc
              /\ tcs_c' = tc
              /\ residual' = FALSE
              /\ sources_tcs_in' = <<>>
              /\ sources_tcs' = r.out
              /\ sources_tcs_monitor' = <<>>
    /\ UNCHANGED <<time_axis, alert_vars, detect_vars>>

TcsBaseline == BaselineCall(TRUE)

\* the effect of a call tcs_monitoring(tc, Latest, tv, res)
Monitor(tc, tv, res, inc) ==
    \E r \in {tcs_monitoring(tc, Latest, tv, res)} :
        /\ pc' = "monitoring"
        /\ err' = r.err
        /\ time_values' = tv
        /\ m' = inc
        /\ tcs_c_in' = tc
        /\ tcs_c' = r.tcs_c
        /\ residual' = res
        /\ sources_tcs_in' = Latest
        /\ sources_tcs' = r.arg
        /\ sources_tcs_monitor' = r.out
        /\ UNCHANGED <<time_axis, n_times_baseline, alert_vars, detect_vars>>

\* bss_components_inversion(..., cumulative=True) on new interferograms
\* followed by tcs_monitoring in per-source mode
SourcesCall(exact) ==
    /\ err = "none"
    /\ pc = "baseline" \/ (pc = "monitoring" /\ ~residual)
    /\ LET n_b == Len(Latest[1].cumulative_tc)
           k == Len(Latest)
       IN  \E n_new \in 0..(MaxTimes - n_b) :
           \E inc \in RowSeqs(n_new, k),
              nt \in (IF exact THEN TimeLens(n_b + n_new)
                      ELSE AnyTimeLens(n_b + n_new)) :
              Monitor(CumsumRows(inc, k), SubSeq(time_axis, 1, nt), FALSE, inc)

TcsMonitoringSources == SourcesCall(TRUE)

\* tcs_monitoring in residual mode on a full series; the residual list has
\* one record
ResidualCall(exact) ==
    /\ err = "none"
    /\ pc = "baseline" \/ (pc = "monitoring" /\ residual)
    /\ Len(Latest) = 1
    /\ LET n_b == Len(Latest[1].cumulative_tc)
           k == Len(Latest)
       IN  \E n_tc \in (n_b - 1)..MaxTimes :
           \E tc \in ResidualInputs(Latest, n_tc, k),
              nt \in (IF exact THEN TimeLens(Max(n_tc, n_b))
                      ELSE AnyTimeLens(Max(n_tc, n_b))) :
              Monitor(tc, SubSeq(time_axis, 1, nt), TRUE, <<>>)

TcsMonitoringResidual == ResidualCall(TRUE)

Next == TcsBaseline \/ TcsMonitoringSources \/ TcsMonitoringResidual

Spec == Init /\ [][Next]_vars

\* the same calls with time vectors of any length
TcsBaselineAnyLen == BaselineCall(FALSE)

TcsMonitoringSourcesAnyLen == SourcesCall(FALSE)

TcsMonitoringResidualAnyLen == ResidualCall(FALSE)

NextAnyLen ==
    TcsBaselineAnyLen \/ TcsMonitoringSourcesAnyLen \/ TcsMonitoringResidualAnyLen

SpecAnyLen == Init /\ [][NextAnyLen]_vars

(***************************************************************************)
(* tcs_monitoring on a list put together by its caller: the records come   *)
(* from two tcs_baseline calls, each on one time course, with its own      *)
(* t_recalculate and its own number of steps.                              *)
(***************************************************************************)
\* the values of t_recalculate of the records of such a list
RecordRecalcs == {2, 3}

\* the record tcs_baseline returns for one time course of increments inc
RecordOf(inc, t_recalculate) ==
    tcs_baseline(CumsumRows(inc, 1), 1, SubSeq(time_axis, 1, Len(inc)),
                 t_recalculate).out[1]

\* sources_tcs = [tcs_baseline(a, ...)[0], tcs_baseline(b, ...)[0]]
TcsBaselineRecords ==
    /\ pc = "start"
    /\ \E n1, n2 \in BaselineLens, t1, t2 \in RecordRecalcs :
       \E inc1 \in RowSeqs(n1, 1), inc2 \in RowSeqs(n2, 1) :
          /\ pc' = "baseline"
          /\ err' = "none"
          /\ time_values' = SubSeq(time_axis, 1, n1)
          /\ n_times_baseline' = n1
          /\ m' = inc1
          /\ tcs_c_in' = CumsumRows(inc1, 1)
          /\ tcs_c' = CumsumRows(inc1, 1)
          /\ residual' = FALSE
          /\ sources_tcs_in' = <<>>
          /\ sources_tcs' = <<RecordOf(inc1, t1), RecordOf(inc2, t2)>>
          /\ sources_tcs_monitor' = <<>>
    /\ UNCHANGED <<time_axis, alert_vars, detect_vars>>

NextRecords == TcsBaselineRecords \/ TcsMonitoringSources

SpecRecords == Init /\ [][NextRecords]_vars

(***************************************************************************)
(* LiCSAlert, step by step, invoked on arrays the caller keeps.            *)
(***************************************************************************)
\* the caller's arrays, made from rows of GenRows
InitAlert ==
    /\ time_axis = AlertTimeAxis
    /\ TrackIdle
    /\ DetectIdle
    /\ \E sources \in SourceChoices, n_b \in BaselineLens,
          t_recalculate \in AlertRecalcs :
       \E n_m \in 0..(MaxTimes - n_b) :
       \E rows_b \in [1..n_b -> GenRows(Len(sources))],
          rows_m \in [1..n_m -> GenRows(Len(sources))] :
          /\ args = [sources |-> sources,
                     time_values |-> SubSeq(time_axis, 1, n_b + n_m),
                     ifgs_baseline |-> Ifgs(sources, rows_b),
                     ifgs_monitoring |-> IF n_m = 0 THEN None
                                         ELSE Ifgs(sources, rows_m),
                     t_recalculate |-> t_recalculate]
          /\ gen = [baseline |-> rows_b, monitoring |-> rows_m]
    /\ locals = NoLocals
    /\ trace = <<>>
    /\ returned = <<>>

\* the record of a call: the function, the interferograms and the state
\* list passed, the residual flag, the value LiCSAlert keeps (out) and the
\* one it discards (other)
Call(fn, ifgs, state, res, out, other) ==
    [fn |-> fn, ifgs |-> ifgs, state |-> state, residual |-> res,
     out |-> out, other |-> other]

\* the locals after a step that raised e, or that went on to step next
\* with the locals after
After(e, next, after) ==
    IF e # "none" THEN [locals EXCEPT !.pc = "raised", !.err = e]
    ELSE [after EXCEPT !.pc = next]

\* LiCSAlert is invoked: n_times_baseline and ifgs_all
Invoke ==
    /\ locals.pc = "idle"
    /\ locals' = [NoLocals EXCEPT
                    !.pc = "baseline_inversion",
                    !.n_times_baseline = Len(args.ifgs_baseline),
                    !.ifgs_all = IfgsAll(args.ifgs_baseline,
                                         args.ifgs_monitoring)]
    /\ trace' = <<>>
    /\ UNCHANGED <<args, gen, returned, track_vars, detect_vars>>

\* tcs_c, _ = bss_components_inversion(sources, ifgs_baseline, cumulative=True)
BaselineInversion ==
    /\ locals.pc = "baseline_inversion"
    /\ \E r \in {bss_components_inversion(args.sources, args.ifgs_baseline,
                                          TRUE)} :
          /\ r.err = "none" => r.carried
          /\ args' = [args EXCEPT !.ifgs_baseline = r.interferograms]
          /\ locals' = After(r.err, "baseline_tcs",
                             [locals EXCEPT !.tcs_c = r.m])
          /\ trace' = Append(trace,
                 Call("bss_components_inversion", args.ifgs_baseline, <<>>,
                      FALSE, r.m, r.residual))
    /\ UNCHANGED <<gen, returned, track_vars, detect_vars>>

\* sources_tcs = tcs_baseline(tcs_c, time_values[:n_times_baseline], t_recalculate)
BaselineTcs ==
    /\ locals.pc = "baseline_tcs"
    /\ \E r \in {tcs_baseline(locals.tcs_c, Len(args.sources),
                              Slice(args.time_values, 0,
                                    locals.n_times_baseline),
                              args.t_recalculate)} :
          /\ locals' = After(r.err, "baseline_residual",
                             [locals EXCEPT !.sources_tcs = r.out])
          /\ trace' = Append(trace,
                 Call("tcs_baseline", <<>>, <<>>, FALSE, r.out, <<>>))
    /\ UNCHANGED <<args, gen, returned, track_vars, detect_vars>>

\* _, residual_cb = residual_for_pixels(sources, sources_tcs, ifgs_baseline)
BaselineResidual ==
    /\ locals.pc = "baseline_residual"
    /\ \E r \in {residual_for_pixels(args.sources, locals.sources_tcs,
                                     args.ifgs_baseline)} :
          /\ r.err = "none" => r.carried
          /\ locals' = After(r.err, "baseline_residual_tcs",
                             [locals EXCEPT !.residual_cb = r.residual_cs])
          /\ trace' = Append(trace,
                 Call("residual_for_pixels", args.ifgs_baseline,
                      locals.sources_tcs, FALSE, r.residual_cs,
                      r.residual_ts))
    /\ UNCHANGED <<args, gen, returned, track_vars, detect_vars>>

\* residual_tcs = tcs_baseline(residual_cb, time_values[:n_times_baseline],
\* t_recalculate), then del tcs_c, residual_cb
BaselineResidualTcs ==
    /\ locals.pc = "baseline_residual_tcs"
    /\ \E r \in {tcs_baseline(locals.residual_cb, 1,
                              Slice(args.time_values, 0,
                                    locals.n_times_baseline),
                              args.t_recalculate)} :
          /\ locals' = After(r.err,
                             IF args.ifgs_monitoring = None THEN "return"
                             ELSE "monitoring_inversion",
                             [locals EXCEPT !.residual_tcs = r.out,
                                            !.tcs_c = <<>>,
                                            !.residual_cb = <<>>])
          /\ trace' = Append(trace,
                 Call("tcs_baseline", <<>>, <<>>, FALSE, r.out, <<>>))
    /\ UNCHANGED <<args, gen, returned, track_vars, detect_vars>>

\* tcs_c, _ = bss_components_inversion(sources, ifgs_monitoring, cumulative=True)
MonitoringInversion ==
    /\ locals.pc = "monitoring_inversion"
    /\ \E ifgs \in {MonitoringInterferograms(args.ifgs_monitoring,
                                              locals.ifgs_all)} :
       \E r \in {bss_components_inversion(args.sources, ifgs, TRUE)} :
          /\ r.err = "none" => r.carried
          /\ args' = [args EXCEPT !.ifgs_monitoring = r.interferograms]
          /\ locals' = After(r.err, "monitoring_tcs",
                             [locals EXCEPT !.tcs_c = r.m])
          /\ trace' = Append(trace,
                 Call("bss_components_inversion", ifgs, <<>>, FALSE, r.m,
                      r.residual))
    /\ UNCHANGED <<gen, returned, track_vars, detect_vars>>

\* sources_tcs_monitor = tcs_monitoring(tcs_c, sources_tcs, time_values)
MonitoringTcs ==
    /\ locals.pc = "monitoring_tcs"
    /\ \E r \in {tcs_monitoring(locals.tcs_c, locals.sources_tcs,
                                args.time_values, FALSE)} :
          /\ locals' = After(r.err, "monitoring_residual",
                             [locals EXCEPT !.sources_tcs_monitor = r.out,
                                            !.sources_tcs = r.arg,
                                            !.tcs_c = r.tcs_c])
          /\ trace' = Append(trace,
                 Call("tcs_monitoring", <<>>, locals.sources_tcs, FALSE,
                      r.out, <<>>))
    /\ UNCHANGED <<args, gen, returned, track_vars, detect_vars>>

\* _, residual_c_bm = residual_for_pixels(sources, sources_tcs_monitor, ifgs_all)
MonitoringResidual ==
    /\ locals.pc = "monitoring_residual"
    /\ \E r \in {residual_for_pixels(args.sources, locals.sources_tcs_monitor,
                                     locals.ifgs_all)} :
          /\ r.err = "none" => r.carried
          /\ locals' = After(r.err, "monitoring_residual_tcs",
                             [locals EXCEPT !.residual_c_bm = r.residual_cs])
          /\ trace' = Append(trace,
                 Call("residual_for_pixels", locals.ifgs_all,
                      locals.sources_tcs_monitor, FALSE, r.residual_cs,
                      r.residual_ts))
    /\ UNCHANGED <<args, gen, returned, track_vars, detect_vars>>

\* residual_tcs_monitor = tcs_monitoring(residual_c_bm, residual_tcs,
\* time_values, residual=True)
MonitoringResidualTcs ==
    /\ locals.pc = "monitoring_residual_tcs"
    /\ \E r \in {tcs_monitoring(locals.residual_c_bm, locals.residual_tcs,
                                args.time_values, TRUE)} :
          /\ locals' = After(r.err, "return",
                             [locals EXCEPT !.residual_tcs_monitor = r.out,
                                            !.residual_tcs = r.arg,
                                            !.residual_c_bm = r.tcs_c])
          /\ trace' = Append(trace,
                 Call("tcs_monitoring", <<>>, locals.residual_tcs, TRUE,
                      r.out, <<>>))
    /\ UNCHANGED <<args, gen, returned, track_vars, detect_vars>>

\* return sources_tcs, residual_tcs, or the two extended lists
Return ==
    /\ locals.pc = "return"
    /\ returned' = Append(returned,
                          LiCSAlertReturn(args.ifgs_monitoring, locals))
    /\ locals' = [locals EXCEPT !.pc = "done"]
    /\ UNCHANGED <<args, gen, trace, track_vars, detect_vars>>

NextAlert ==
    \/ Invoke
    \/ BaselineInversion
    \/ BaselineTcs
    \/ BaselineResidual
    \/ BaselineResidualTcs
    \/ MonitoringInversion
    \/ MonitoringTcs
    \/ MonitoringResidual
    \/ MonitoringResidualTcs
    \/ Return

SpecAlert == InitAlert /\ [][NextAlert]_vars

\* LiCSAlert is invoked once more with the arrays it was invoked with
InvokeAgain ==
    /\ locals.pc = "done"
    /\ Len(returned) < MaxInvocations
    /\ locals' = [NoLocals EXCEPT
                    !.pc = "baseline_inversion",
                    !.n_times_baseline = Len(args.ifgs_baseline),
                    !.ifgs_all = IfgsAll(args.ifgs_baseline,
                                         args.ifgs_monitoring)]
    /\ trace' = <<>>
    /\ UNCHANGED <<args, gen, returned, track_vars, detect_vars>>

NextAlertAgain == NextAlert \/ InvokeAgain

SpecAlertAgain == InitAlert /\ [][NextAlertAgain]_vars

(***************************************************************************)
(* detect_new_ifgs, called on a folder that LiCSAR fills.                  *)
(***************************************************************************)
\* any folders, and any earlier listing passed as ifgs_preexisting
InitDetect ==
    /\ time_axis = <<>>
    /\ TrackIdle
    /\ AlertIdle
    /\ folders \in SUBSET Names
    /\ ifgs_preexisting \in {Sorted(names) : names \in SUBSET Names}
    /\ detected = [mode |-> "none"]

\* a folder appears in path
FolderAdded ==
    /\ \E name \in Names \ folders : folders' = folders \cup {name}
    /\ UNCHANGED <<ifgs_preexisting, detected, track_vars, alert_vars>>

\* a folder disappears from path
FolderRemoved ==
    /\ \E name \in folders : folders' = folders \ {name}
    /\ UNCHANGED <<ifgs_preexisting, detected, track_vars, alert_vars>>

\* detect_new_ifgs(path, initiate = True)
DetectInitiate ==
    /\ detected' = [mode |-> "initiate",
                    out |-> detect_new_ifgs(folders, TRUE, ifgs_preexisting)]
    /\ UNCHANGED <<folders, ifgs_preexisting, track_vars, alert_vars>>

\* detect_new_ifgs(path, initiate = False, ifgs_preexisting)
DetectNewIfgs ==
    /\ detected' = [mode |-> "detect",
                    out |-> detect_new_ifgs(folders, FALSE, ifgs_preexisting)]
    /\ UNCHANGED <<folders, ifgs_preexisting, track_vars, alert_vars>>

NextDetect == FolderAdded \/ FolderRemoved \/ DetectInitiate \/ DetectNewIfgs

SpecDetect == InitDetect /\ [][NextDetect]_vars

(***************************************************************************)
(* Properties.                                                             *)
(***************************************************************************)
\* the last call was tcs_monitoring and it returned a list
Extended == pc = "monitoring" /\ err = "none"

\* the last call returned a list
Returned == pc \in {"baseline", "monitoring"} /\ err = "none"

\* the length of the cumulative time course of a list
NTimes(tcs) == Len(tcs[1].cumulative_tc)

\* lines[t', t] of a record, with numpy's 0-based indices, is not NaN
Defined(tc, row, col) == ~IsNaN(tc.lines[row + 1][col + 1])

\* C1: every tcs_monitoring call returns, for every channel, the gradient,
\* sigma and t_recalculate of the record it was given.
C1_BaselineFieldsPreserved ==
    Extended =>
        /\ Len(sources_tcs_monitor) = Len(sources_tcs)
        /\ \A c \in 1..Len(sources_tcs) :
              /\ sources_tcs_monitor[c].gradient = sources_tcs[c].gradient
              /\ sources_tcs_monitor[c].sigma = sources_tcs[c].sigma
              /\ sources_tcs_monitor[c].t_recalculate =
                     sources_tcs[c].t_recalculate

\* an already extended state is extended by further steps
C1_Witness ==
    /\ Extended
    /\ NTimes(sources_tcs) > n_times_baseline
    /\ NTimes(sources_tcs_monitor) > NTimes(sources_tcs)

\* C2: in every record returned by tcs_baseline or tcs_monitoring, lines is
\* square with the side of the length of cumulative_tc, and distances has as
\* many entries as cumulative_tc.
C2_ShapesAgree ==
    Returned =>
        \A c \in 1..Len(Latest) :
            LET n == Len(Latest[c].cumulative_tc)
            IN  /\ Len(Latest[c].lines) = n
                /\ \A r \in 1..n : Len(Latest[c].lines[r]) = n
                /\ Len(Latest[c].distances) = n

\* a residual-mode call has lengthened the state
C2_Witness ==
    /\ Extended
    /\ residual
    /\ NTimes(sources_tcs_monitor) > NTimes(sources_tcs)

\* C3: tcs_monitoring leaves the distances and the lines block of the steps
\* of its input state as they were.
C3_BaselineStatisticsKept ==
    Extended =>
        \A c \in 1..Len(sources_tcs) :
            \A t \in 1..NTimes(sources_tcs) :
                /\ sources_tcs_monitor[c].distances[t] =
                       sources_tcs[c].distances[t]
                /\ \A r \in 1..NTimes(sources_tcs) :
                       sources_tcs_monitor[c].lines[r][t] =
                           sources_tcs[c].lines[r][t]

\* a baseline with scatter has been extended by a monitoring step
C3_Witness ==
    /\ Extended
    /\ NTimes(sources_tcs_monitor) > NTimes(sources_tcs)
    /\ sources_tcs[1].sigma.sq # FromInt(0)
    /\ sources_tcs[1].distances[1].sq # FromInt(0)

\* C4: in every record returned by tcs_baseline, lines[t', t] is defined
\* exactly when max(0, t - t_recalculate + 1) <= t' <= t.
C4_BaselineWindow ==
    (pc = "baseline" /\ err = "none") =>
        \A c \in 1..Len(sources_tcs) :
            \A row, col \in 0..(NTimes(sources_tcs) - 1) :
                Defined(sources_tcs[c], row, col) <=>
                    /\ Max(0, col - sources_tcs[c].t_recalculate + 1) <= row
                    /\ row <= col

\* a baseline longer than the window
C4_Witness ==
    /\ pc = "baseline" /\ err = "none"
    /\ sources_tcs[1].t_recalculate = 2
    /\ NTimes(sources_tcs) = 3

\* the monitoring line ids t >= t_recalculate of a returned list
MonitoringLines(tcs) ==
    {t \in n_times_baseline..(NTimes(tcs) - 1) : t >= tcs[1].t_recalculate}

\* C5 as claimed: column t of a monitoring line id t >= t_recalculate is
\* defined exactly in the t_recalculate rows t - t_recalculate + 1 .. t.
C5_WindowOfTRecalculateRows ==
    Extended =>
        \A c \in 1..Len(sources_tcs_monitor) :
            \A t \in MonitoringLines(sources_tcs_monitor) :
                \A row \in 0..(NTimes(sources_tcs_monitor) - 1) :
                    Defined(sources_tcs_monitor[c], row, t) <=>
                        /\ t - sources_tcs_monitor[c].t_recalculate + 1 <= row
                        /\ row <= t

\* C5 as amended: column t of a monitoring line id t >= t_recalculate is
\* defined exactly in the t_recalculate + 1 rows t - t_recalculate .. t.
C5_WindowOfTRecalculatePlusOneRows ==
    Extended =>
        \A c \in 1..Len(sources_tcs_monitor) :
            \A t \in MonitoringLines(sources_tcs_monitor) :
                \A row \in 0..(NTimes(sources_tcs_monitor) - 1) :
                    Defined(sources_tcs_monitor[c], row, t) <=>
                        /\ t - sources_tcs_monitor[c].t_recalculate <= row
                        /\ row <= t

\* a monitoring step at or beyond t_recalculate has been added
C5_Witness ==
    /\ Extended
    /\ MonitoringLines(sources_tcs_monitor) # {}

\* the number of time steps the last tcs_monitoring call was to reach
NTimesTotal ==
    IF residual THEN Len(tcs_c_in) ELSE NTimes(sources_tcs) + Len(tcs_c_in)

\* C6 as claimed: with a baseline shorter than t_recalculate, the call
\* completes, and for every monitoring step t < t_recalculate the rows 0..t
\* of column t hold line values and the distance of step t is defined.
C6_EarlyWindowStartsAtZero ==
    (/\ pc = "monitoring"
     /\ NTimes(sources_tcs) < sources_tcs[1].t_recalculate
     /\ NTimesTotal > NTimes(sources_tcs)) =>
        /\ err = "none"
        /\ \A c \in 1..Len(sources_tcs_monitor) :
              \A t \in NTimes(sources_tcs)..(NTimes(sources_tcs_monitor) - 1) :
                  t < sources_tcs[1].t_recalculate =>
                      /\ \A row \in 0..t :
                            Defined(sources_tcs_monitor[c], row, t)
                      /\ sources_tcs[c].sigma.sq # FromInt(0) =>
                            ~IsNaN(sources_tcs_monitor[c].distances[t + 1].sq)

\* C7: in per-source mode the returned cumulative_tc is the input one
\* followed by the new values, each increased by the input's last value.
C7_PerSourceOffsetAppend ==
    (Extended /\ ~residual) =>
        \A c \in 1..Len(sources_tcs) :
            LET old == sources_tcs[c].cumulative_tc
                new == sources_tcs_monitor[c].cumulative_tc
            IN  /\ Len(new) = Len(old) + Len(tcs_c_in)
                /\ \A i \in 1..Len(old) : new[i] = old[i]
                /\ \A i \in 1..Len(tcs_c_in) :
                      new[Len(old) + i] = Round(tcs_c_in[i][c] + old[Len(old)])

\* two channels have been extended by new values
C7_Witness ==
    /\ Extended /\ ~residual
    /\ Len(sources_tcs) = 2
    /\ Len(tcs_c_in) >= 1

\* C8: in residual mode the returned cumulative_tc is the supplied series,
\* the state grows by its length minus the length of the input state, and a
\* series shorter than the input state is refused.
C8_ResidualSeriesReplaces ==
    (pc = "monitoring" /\ residual) =>
        IF Len(tcs_c_in) < NTimes(sources_tcs)
        THEN err # "none" /\ sources_tcs_monitor = <<>>
        ELSE err = "none" =>
                \A c \in 1..Len(sources_tcs) :
                    /\ sources_tcs_monitor[c].cumulative_tc =
                           Column(tcs_c_in, c)
                    /\ Len(sources_tcs_monitor[c].distances)
                           - Len(sources_tcs[c].distances)
                       = Len(tcs_c_in) - NTimes(sources_tcs)

\* a recomputed, longer series has been supplied
C8_Witness ==
    /\ Extended /\ residual
    /\ Len(tcs_c_in) > NTimes(sources_tcs)
    /\ tcs_c_in[1][1] # sources_tcs[1].cumulative_tc[1]

\* the series a state holds, as a rank-2 array
HeldSeries(tcs) ==
    [i \in 1..NTimes(tcs) |-> [c \in 1..Len(tcs) |-> tcs[c].cumulative_tc[i]]]

\* C9: a call with zero monitoring steps (no new rows in per-source mode,
\* the held series in residual mode) returns a state equal to its input.
C9_ZeroStepsIsIdentity ==
    (/\ pc = "monitoring"
     /\ \/ ~residual /\ tcs_c_in = <<>>
        \/ residual /\ tcs_c_in = HeldSeries(sources_tcs)) =>
        /\ err = "none"
        /\ sources_tcs_monitor = sources_tcs

\* a baseline state with scatter extended by zero steps in residual mode
C9_Witness ==
    /\ pc = "monitoring" /\ residual
    /\ tcs_c_in = HeldSeries(sources_tcs)
    /\ NTimes(sources_tcs) = n_times_baseline
    /\ sources_tcs[1].sigma.sq # FromInt(0)

\* the rows of a rank-2 array after the first n
RowsAfter(arr, n) == [i \in 1..(Len(arr) - n) |-> arr[n + i]]

RECURSIVE ExactSum(_, _, _)
\* the sum of column c of the first i rows, without rounding
ExactSum(rows, c, i) ==
    IF i = 0 THEN 0 ELSE ExactSum(rows, c, i - 1) + rows[i][c]

\* no running sum of the last decomposition was rounded
NoRounding ==
    IF pc = "baseline"
    THEN \A c \in 1..Len(sources_tcs) : \A i \in 1..Len(m) :
            sources_tcs[c].cumulative_tc[i] = ExactSum(m, c, i)
    ELSE \A c \in 1..Len(sources_tcs) : \A i \in 1..Len(m) :
            sources_tcs_monitor[c].cumulative_tc[NTimes(sources_tcs) + i] =
                sources_tcs[c].cumulative_tc[NTimes(sources_tcs)]
                    + ExactSum(m, c, i)

\* the increments list_dict_to_r2 recovers are those of the decomposition
IncrementsRecovered ==
    IF pc = "baseline"
    THEN list_dict_to_r2(sources_tcs) = m
    ELSE RowsAfter(list_dict_to_r2(sources_tcs_monitor), NTimes(sources_tcs)) = m

\* C10 as claimed: the first differences of a cumulative time course are
\* exactly the increments it is the running sum of, in a baseline state and
\* in the monitoring part of a state extended in per-source mode.
C10_DiffRecoversIncrements ==
    (Returned /\ ~residual) => IncrementsRecovered

\* C10 as amended: the first differences are exactly the increments when no
\* running sum was rounded.
C10_DiffRecoversUnroundedIncrements ==
    (Returned /\ ~residual /\ NoRounding) => IncrementsRecovered

\* a state extended in per-source mode by increments summed without rounding
C10_Witness ==
    /\ Extended /\ ~residual
    /\ Len(m) >= 2
    /\ NTimes(sources_tcs) >= 2
    /\ NoRounding

\* C14: a call given a time vector whose length is not the number of time
\* steps returns no state: every state returned was computed from exactly
\* one time value per time step.
C14_MismatchedTimesRejected ==
    Returned => Len(time_values) = NTimes(Latest)

\* C15: a call that meets sigma = 0 is rejected or returns finite
\* distances: no returned record with sigma = 0 holds an infinite or NaN
\* distance.
C15_ZeroSigmaGuarded ==
    Returned =>
        \A c \in 1..Len(Latest) :
            Latest[c].sigma.sq = FromInt(0) =>
                \A t \in 1..Len(Latest[c].distances) :
                    IsFinite(Latest[c].distances[t].sq)

RawDistances(tc) ==
    [t \in 1..Len(tc.cumulative_tc) |->
        RSub(FromInt(tc.cumulative_tc[t]), tc.lines[t][t])]

\* the mean of the squares of d, minus the square of the mean of d
Variance(d) ==
    RSub(RMean([t \in 1..Len(d) |-> RMul(d[t], d[t])]),
         RMul(RMean(d), RMean(d)))

\* C18: in every record tcs_baseline returns, sigma is the standard
\* deviation of the raw baseline distances and, when sigma > 0, the mean of
\* the squared raw distances divided by sigma squared is 1 and
\* distances[t] is |raw distance at t| / sigma.
C18_SigmaNormalisesBaseline ==
    (pc = "baseline" /\ err = "none") =>
        \A c \in 1..Len(sources_tcs) :
            LET tc == sources_tcs[c]
                d == RawDistances(tc)
            IN  /\ tc.sigma.sq = Variance(d)
                /\ Variance(d) # FromInt(0) =>
                      /\ RDiv(RMean([t \in 1..Len(d) |-> RMul(d[t], d[t])]),
                              tc.sigma.sq) = FromInt(1)
                      /\ \A t \in 1..Len(d) :
                            tc.distances[t].sq =
                                RDiv(RMul(d[t], d[t]), tc.sigma.sq)

C18_Witness ==
    /\ pc = "baseline" /\ err = "none"
    /\ NTimes(sources_tcs) >= 3
    /\ \A c \in 1..Len(sources_tcs) : sources_tcs[c].sigma.sq # FromInt(0)
    /\ \E t \in 1..NTimes(sources_tcs) :
          sources_tcs[1].distances[t].sq # FromInt(0)

\* some combination of the sources with small coefficients, not all zero, is
\* the zero row: the source matrix is rank-deficient
RankDeficient(sources) ==
    \E c \in [1..Len(sources) -> -2..2] :
        /\ \E j \in 1..Len(sources) : c[j] # 0
        /\ \A p \in 1..Len(sources[1]) :
              RSum([j \in 1..Len(sources) |->
                      RMul(FromInt(c[j]), sources[j][p])]) = FromInt(0)

\* the time values of the baseline steps
BaselineTimes == SubSeq(args.time_values, 1, Len(args.ifgs_baseline))

\* C11: without monitoring interferograms LiCSAlert never calls
\* tcs_monitoring, raises nothing but the LinAlgError of rank-deficient
\* sources, and returns the list tcs_baseline made from the baseline time
\* courses and the one-record list tcs_baseline made from the baseline
\* residual, both of n_times_baseline steps.
C11_BaselineOnlyPath ==
    args.ifgs_monitoring = None =>
        /\ \A i \in 1..Len(trace) : trace[i].fn # "tcs_monitoring"
        /\ locals.pc = "raised" =>
              locals.err = "LinAlgError" /\ RankDeficient(args.sources)
        /\ locals.pc = "done" =>
              /\ Len(trace) = 4
              /\ trace[2].out =
                     tcs_baseline(trace[1].out, Len(args.sources),
                                  BaselineTimes, args.t_recalculate).out
              /\ trace[4].out =
                     tcs_baseline(trace[3].out, 1, BaselineTimes,
                                  args.t_recalculate).out
              /\ returned[Len(returned)] = <<trace[2].out, trace[4].out>>
              /\ Len(trace[2].out) = Len(args.sources)
              /\ Len(trace[4].out) = 1
              /\ NTimes(trace[2].out) = Len(args.ifgs_baseline)
              /\ NTimes(trace[4].out) = Len(args.ifgs_baseline)

C11_Witness ==
    /\ args.ifgs_monitoring = None
    /\ locals.pc = "done"
    /\ Len(returned) = 1
    /\ Len(args.ifgs_baseline) = 3

\* the calls of an invocation with monitoring interferograms, in order
MonitoringOrder ==
    <<"bss_components_inversion", "tcs_baseline", "residual_for_pixels",
      "tcs_baseline", "bss_components_inversion", "tcs_monitoring",
      "residual_for_pixels", "tcs_monitoring">>

\* C12: with monitoring interferograms the calls come in the order of
\* MonitoringOrder: the second inversion is given the monitoring
\* interferograms only, the first tcs_monitoring the list of the first
\* tcs_baseline, the second residual_for_pixels every interferogram and the
\* list just extended, the last tcs_monitoring the residual list in
\* residual mode; the pair returned is the two extended lists.
C12_MonitoringStepsInOrder ==
    args.ifgs_monitoring # None =>
        /\ Len(trace) <= 8
        /\ \A i \in 1..Len(trace) : trace[i].fn = MonitoringOrder[i]
        /\ Len(trace) >= 5 =>
              trace[5].ifgs = Ifgs(args.sources, gen.monitoring)
        /\ Len(trace) >= 6 =>
              trace[6].state = trace[2].out /\ ~trace[6].residual
        /\ Len(trace) >= 7 =>
              /\ trace[7].ifgs =
                     Ifgs(args.sources, gen.baseline \o gen.monitoring)
              /\ trace[7].state = trace[6].out
        /\ Len(trace) >= 8 =>
              trace[8].state = trace[4].out /\ trace[8].residual
        /\ locals.pc = "done" =>
              /\ Len(trace) = 8
              /\ returned[Len(returned)] = <<trace[6].out, trace[8].out>>

C12_Witness ==
    /\ args.ifgs_monitoring # None
    /\ locals.pc = "done"
    /\ Len(returned) = 1
    /\ Len(args.ifgs_monitoring) = 2

C16_InvocationsRepeat ==
    Len(returned) = 2 => returned[2] = returned[1]

\* the interferograms of the rows hold no noise
ZeroNoise(rows) == \A i \in 1..Len(rows) : rows[i].noise = 0

\* the strengths the interferograms of the rows were made with
GenStrengths(rows) == [i \in 1..Len(rows) |-> rows[i].strengths]

\* the array of floating-point values holds zeros only
AllZero(arr) ==
    \A t \in 1..Len(arr) : \A u \in 1..Len(arr[t]) : arr[t][u] = 0

\* the residual of an inversion is zero at every step: it sums zeros only
ZeroSums(res) ==
    \A t \in 1..Len(res) : \A u \in 1..Len(res[t]) : res[t][u] = FromInt(0)

\* what the inversion of call i returns for noise-free rows: the strengths
\* they were made with (their running sums, cumulative being set) and a
\* residual of zero
RoundTrip(i, rows) ==
    (Len(trace) >= i /\ ZeroNoise(rows)) =>
        /\ trace[i].out = CumsumRows(GenStrengths(rows), Len(args.sources))
        /\ ZeroSums(trace[i].other)
        /\ Len(trace[i].other) = Len(rows)
        /\ bss_components_inversion(args.sources,
                                    Ifgs(args.sources, rows), FALSE).m
               = GenStrengths(rows)

\* what residual_for_pixels of call i returns for noise-free rows: RMS
\* residuals and cumulative RMS residuals of zero
ZeroResidual(i, rows) ==
    (Len(trace) >= i /\ ZeroNoise(rows)) =>
        /\ AllZero(trace[i].out) /\ AllZero(trace[i].other)
        /\ Len(trace[i].out) = Len(rows) /\ Len(trace[i].other) = Len(rows)

\* C19: for interferograms that are combinations of independent
\* mean-centred sources without noise, bss_components_inversion returns the
\* strengths they were made with and a residual of zero at every step, and
\* residual_for_pixels on the state made from them returns zero RMS and
\* zero cumulative RMS at every step.
C19_NoiseFreeRoundTrip ==
    ~RankDeficient(args.sources) =>
        /\ RoundTrip(1, gen.baseline)
        /\ ZeroResidual(3, gen.baseline)
        /\ RoundTrip(5, gen.monitoring)
        /\ ZeroResidual(7, gen.baseline \o gen.monitoring)

C19_Witness ==
    /\ ~RankDeficient(args.sources)
    /\ Len(args.sources) = 2
    /\ ZeroNoise(gen.baseline \o gen.monitoring)
    /\ \E i \in 1..Len(gen.baseline) :
          gen.baseline[i].strengths # gen.baseline[1].strengths
    /\ Len(gen.monitoring) >= 1
    /\ locals.pc = "done"

\* C20: a call that is not in initiate mode returns new_ifgs_flag = True
\* exactly when some folder of the current listing is not in
\* ifgs_preexisting, and ifgs_new is the sorted list of those folders.
C20_NewFoldersDetected ==
    detected.mode = "detect" =>
        LET new == Members(detected.out.ifgs_current)
                       \ Members(ifgs_preexisting)
        IN  /\ detected.out.new_ifgs_flag <=> new # {}
            /\ detected.out.ifgs_new = Sorted(new)


\* mean(y) - gradient x mean(t): the intercept of the least-squares line of
\* a record's gradient through all of its steps
GlobalIntercept(tc) ==
    RSub(RMean(Rats(tc.cumulative_tc)),
         RMul(tc.gradient, RMean(Rats(time_values))))

\* gradient x time[t] + intercept, t counted from 0
OnLine(tc, intercept, t) ==
    RAdd(RMul(tc.gradient, FromInt(time_values[t + 1])), intercept)

\* the misfits of the diagonal of lines: cumulative_tc[t] - lines[t, t]
Misfits(tc) ==
    Array([i \in 1..Len(tc.cumulative_tc) |->
        RSub(FromInt(tc.cumulative_tc[i]), tc.lines[i][i])])

\* C21: in every record returned by tcs_baseline, every defined lines[t', t]
\* is gradient x time[t'] + the intercept of the one least-squares line
\* through the whole baseline, whatever the line id t: two line ids whose
\* windows hold t' agree there, and the misfits of the line satisfy the two
\* normal equations of the fit over all steps (they sum to zero and are
\* orthogonal to the time values).
C21_SingleGlobalFit ==
    (pc = "baseline" /\ err = "none") =>
        \A c \in 1..Len(sources_tcs) :
            LET tc == sources_tcs[c]
                n == NTimes(sources_tcs)
            IN  /\ \A row, col \in 0..(n - 1) :
                      Defined(tc, row, col) =>
                          tc.lines[row + 1][col + 1] =
                              OnLine(tc, GlobalIntercept(tc), row)
                /\ RSum(Misfits(tc)) = FromInt(0)
                /\ RSum([i \in 1..n |->
                       RMul(FromInt(time_values[i]), Misfits(tc)[i])])
                     = FromInt(0)

\* a step lies in the windows of two line ids of a baseline with scatter
C21_Witness ==
    /\ pc = "baseline" /\ err = "none"
    /\ sources_tcs[1].sigma.sq # FromInt(0)
    /\ \E row, t1, t2 \in 0..(NTimes(sources_tcs) - 1) :
          /\ t1 # t2
          /\ Defined(sources_tcs[1], row, t1)
          /\ Defined(sources_tcs[1], row, t2)


\* the steps (line ids, from 0) the last tcs_monitoring call added that
\* have t_recalculate steps before them
StepsOfCall ==
    {t \in NTimes(sources_tcs)..(NTimes(sources_tcs_monitor) - 1) :
        t >= sources_tcs[1].t_recalculate}

\* the mean of s[t - k .. t - 1], indices from 0
MeanBefore(s, t, k) == RMean([i \in 1..k |-> FromInt(s[t - k + i])])

\* mean(cumulative[t - k .. t - 1]) - gradient x mean(time[t - k .. t - 1])
WindowIntercept(tc, t, k) ==
    RSub(MeanBefore(tc.cumulative_tc, t, k),
         RMul(tc.gradient, MeanBefore(time_values, t, k)))

\* C22: for every step t >= t_recalculate that a tcs_monitoring call adds,
\* with the intercept mean(cumulative[t - t_recalculate .. t - 1]) -
\* gradient x mean(time[t - t_recalculate .. t - 1]) (the same indices for
\* values and times), lines[t', t] = gradient x time[t'] + intercept for
\* every t' in t - t_recalculate .. t and distances[t] =
\* |cumulative[t] - lines[t, t]| / sigma, with the gradient and the sigma of
\* the input record.
C22_MonitoringIntercept ==
    Extended =>
        \A c \in 1..Len(sources_tcs_monitor) :
            \A t \in StepsOfCall :
                LET tc == sources_tcs_monitor[c]
                    k == sources_tcs[c].t_recalculate
                    fixed == [tc EXCEPT !.gradient = sources_tcs[c].gradient]
                    intercept == WindowIntercept(fixed, t, k)
                IN  /\ \A row \in (t - k)..t :
                          tc.lines[row + 1][t + 1] = OnLine(fixed, intercept, row)
                    /\ tc.distances[t + 1] =
                           AbsOver(RSub(FromInt(tc.cumulative_tc[t + 1]),
                                        tc.lines[t + 1][t + 1]),
                                   sources_tcs[c].sigma)

\* a sloping baseline with scatter has been extended by a step that has
\* t_recalculate steps before it and lies off its line
C22_Witness ==
    /\ Extended
    /\ StepsOfCall # {}
    /\ sources_tcs[1].gradient # FromInt(0)
    /\ sources_tcs[1].sigma.sq # FromInt(0)
    /\ \E t \in StepsOfCall :
          /\ IsFinite(sources_tcs_monitor[1].distances[t + 1].sq)
          /\ sources_tcs_monitor[1].distances[t + 1].sq # FromInt(0)


\* the per-pixel residual of a residual_for_pixels call of the trace
PixelResidual(call) ==
    DataModelResidual(args.sources, list_dict_to_r2(call.state), call.ifgs)

\* the mean over the pixels of the square of the residual summed from the
\* first step to step t
CumulativeMeanSquare(res, t) ==
    RDiv(RSum([p \in 1..Len(res[1]) |->
                 RMul(RSum([u \in 1..t |-> res[u][p]]),
                      RSum([u \in 1..t |-> res[u][p]]))]),
         FromInt(Len(res[1])))

\* the series of a record is, step by step, the RMS over the pixels of the
\* cumulative residual of a residual_for_pixels call
TracksCumulative(tc, call) ==
    /\ Len(tc.cumulative_tc) = Len(call.ifgs)
    /\ \A t \in 1..Len(call.ifgs) :
          /\ tc.cumulative_tc[t] >= 0
          /\ FromInt(tc.cumulative_tc[t] * tc.cumulative_tc[t]) =
                 CumulativeMeanSquare(PixelResidual(call), t)

\* the residual list of the pair the last invocation returned
ReturnedResidual == returned[Len(returned)][2]

\* C23: the residual list LiCSAlert builds has one record, whose series is
\* the RMS over the pixels of the per-pixel residual summed cumulatively
\* through time (the second output of residual_for_pixels), after tcs_baseline
\* in the baseline phase and after tcs_monitoring with residual=True in the
\* monitoring phase; the list returned is the one of the last phase run.
C23_ResidualTracksCumulative ==
    /\ (Len(trace) >= 4 /\ trace[4].out # <<>>) =>
          /\ Len(trace[4].out) = 1
          /\ TracksCumulative(trace[4].out[1], trace[3])
    /\ (Len(trace) >= 8 /\ trace[8].out # <<>>) =>
          /\ trace[8].residual
          /\ Len(trace[8].out) = 1
          /\ TracksCumulative(trace[8].out[1], trace[7])
    /\ locals.pc = "done" =>
          /\ Len(ReturnedResidual) = 1
          /\ ReturnedResidual = trace[Len(trace)].out
          /\ Len(trace) = IF args.ifgs_monitoring = None THEN 4 ELSE 8

\* an invocation with monitoring interferograms has returned, and the RMS of
\* the residual and the RMS of the cumulative residual differ in both phases
C23_Witness ==
    /\ locals.pc = "done"
    /\ args.ifgs_monitoring # None
    /\ trace[3].out # trace[3].other
    /\ trace[7].out # trace[7].other
    /\ Len(ReturnedResidual) = 1


\* the new values a followed by the new values b continued from the last
\* value of a: one cumulative series starting from zero
Joined(a, b) ==
    a \o [i \in 1..Len(b) |-> [c \in 1..Len(b[i]) |->
            IF a = <<>> THEN b[i][c] ELSE FAdd(b[i][c], a[Len(a)][c])]]

\* a baseline state has been extended by the steps tcs_c_in
ExtendedOnce ==
    /\ Extended /\ ~residual
    /\ NTimes(sources_tcs) = n_times_baseline
    /\ tcs_c_in # <<>>

\* this step extends the state by further steps in per-source mode
ExtendsFurther ==
    /\ pc' = "monitoring" /\ err' = "none" /\ ~residual'
    /\ tcs_c_in' # <<>>

\* the state this step returns is the one a single call on the joined
\* steps returns
ComposesHere ==
    LET once == tcs_monitoring(Joined(tcs_c_in, tcs_c_in'), sources_tcs,
                               time_values', FALSE)
    IN  once.err = "none" /\ once.out = sources_tcs_monitor'

\* C24: extending a baseline state with the steps A and the result with the
\* steps B returns the state that one call returns for the baseline state
\* and the steps A followed by B offset by the last value of A.
C24_ExtensionComposes ==
    [][(ExtendedOnce /\ ExtendsFurther) => ComposesHere]_vars

\* no sum with an offset was rounded, in the two calls or in the single one
NoJoinRounding ==
    \A i \in 1..Len(tcs_c_in'), c \in 1..Len(sources_tcs) :
        LET a == tcs_c_in[Len(tcs_c_in)][c]
            b == tcs_c_in'[i][c]
            last == sources_tcs[c].cumulative_tc[NTimes(sources_tcs)]
        IN  /\ Round(b + a) = b + a
            /\ Round(a + last) = a + last
            /\ Round(b + a + last) = b + a + last

\* the same where every new step has t_recalculate steps before it and no
\* sum is rounded
C24_ComposesLateExact ==
    [][(/\ ExtendedOnce
        /\ ExtendsFurther
        /\ n_times_baseline >= sources_tcs[1].t_recalculate
        /\ NoJoinRounding) => ComposesHere]_vars


\* what tcs_monitoring returns when it is given channel c alone: the record
\* of the channel, its column of the new values and the time values of the
\* last call
Alone(c) ==
    tcs_monitoring([i \in 1..Len(tcs_c_in) |-> <<tcs_c_in[i][c]>>],
                   <<sources_tcs[c]>>, time_values, residual)

C26_NewValuesUnchanged ==
    (Extended /\ ~residual) =>
        /\ tcs_c = tcs_c_in
        /\ tcs_monitoring(tcs_c, sources_tcs, time_values, FALSE).out =
               sources_tcs_monitor


\* C27: the interferogram arrays passed to LiCSAlert hold, at every point of
\* the invocation and after it (returned, or aborted on singular sources),
\* the values they were passed with: bss_components_inversion leaves its
\* argument interferograms unchanged.
C27_InterferogramsUnchanged ==
    args # <<>> =>
        /\ args.ifgs_baseline = Ifgs(args.sources, gen.baseline)
        /\ args.ifgs_monitoring # None =>
              args.ifgs_monitoring = Ifgs(args.sources, gen.monitoring)


\* the residual list LiCSAlert returns without monitoring interferograms
\* for the baseline interferograms the arrays were passed with
BaselineOnlyResidual ==
    LET inv == bss_components_inversion(args.sources,
                   Ifgs(args.sources, gen.baseline), TRUE)
        tcs == tcs_baseline(inv.m, Len(args.sources), BaselineTimes,
                            args.t_recalculate).out
        res == residual_for_pixels(args.sources, tcs, inv.interferograms)
    IN  tcs_baseline(res.residual_cs, 1, BaselineTimes,
                     args.t_recalculate).out

\* C28: the residual record returned with monitoring interferograms holds,
\* in its first n_times_baseline steps, the cumulative_tc of the residual
\* record returned without them for the same baseline interferograms, and
\* for each of these steps the distance kept is
\* |cumulative_tc[t] - lines[t, t]| / sigma.
C28_ResidualPrefixKept ==
    (locals.pc = "done" /\ args.ifgs_monitoring # None) =>
        LET ext == ReturnedResidual[1]
            base == BaselineOnlyResidual[1]
            n == Len(base.cumulative_tc)
        IN  /\ SubSeq(ext.cumulative_tc, 1, n) = base.cumulative_tc
            /\ \A t \in 1..n :
                  ext.distances[t] =
                      AbsOver(RSub(FromInt(ext.cumulative_tc[t]),
                                   ext.lines[t][t]),
                              ext.sigma)

=============================================================================
